---- MODULE Spec2Model ----
(***************************************************************************)
(* Research stage gate (researchGate.js), its audit log and the gated      *)
(* GET /search and POST /research/session handlers of server.js, together  *)
(* with the Decision Kernel and the RAG answer path they call.             *)
(*                                                                         *)
(* Every handler is one atomic action: a request runs to completion and    *)
(* its response is delivered before the next one starts.  The database is  *)
(* configured (sequelize is not null, database.js:54), since otherwise no  *)
(* session row can exist.                                                  *)
(*                                                                         *)
(* SpecStore is the pgvector store (SupabaseVectorStore): its collection   *)
(* table, its connection pool, and each method as the steps connect, try   *)
(* block, catch block, finally block.                                      *)
(***************************************************************************)
EXTENDS Integers, Sequences, FiniteSets, TLC

\* ------------------------------------------------------------------ bounds
MaxSessions == 1
MaxAudit == 2

\* --------------------------------------------------------------- constants
\* database.js:177
STAGES_ORDER == <<"K", "C", "B", "N", "L">>

Range(s) == {s[i] : i \in DOMAIN s}

\* researchGate.js:8
VALID_STAGES == Range(STAGES_ORDER)

\* researchGate.js:11-15
RESPONSE_TYPE == [HARD_STOP |-> "hard_stop", INFO_ONLY |-> "info_only", FULL_ANSWER |-> "full_answer"]

\* researchGate.js:144 (the fixed refusal text, as a token)
HARD_STOP_MESSAGE == "HARD_STOP_MESSAGE"

\* The values a request can carry.
NoId == 0
UnknownId == MaxSessions + 1
SessionIds == 1..MaxSessions
RawStages == {"K", "C", "B", "N", "L", " b", "x", ""}
Queries == {"", "q1"}
NoStage == "none"
NoType == "none"
NULL == "null"

VARIABLES
  sessions,      \* research_sessions: id -> [completed_stages, updated_at]
  audit,         \* research_audit_log rows [session_id, stage, response_type], in insertion order
  dbUrlSet,      \* settings.SUPABASE_DB_URL is set (config.js:40)
  last,          \* the request being answered and its response, until delivered
  index,         \* rows of the collection table: [id, document, metadata, embedding]
  checkedOut,    \* clients of the pg Pool that are checked out and not yet released
  call,          \* the vector store operation in progress (or the last one finished)
  chunker,       \* one TextChunker.chunkText call: its arguments and, once run, its chunks
  race,          \* one session row and the gate evaluations running on it at the same time
  ranker,        \* one RAGService.search call: the store's results and, once run, the ranked list
  embed          \* the store's embedding state: model load, table creation, one call's vectors

gateVars == <<sessions, audit, dbUrlSet, last>>
storeVars == <<index, checkedOut, call>>
\* what the routes and the store methods above never touch
otherVars == <<chunker, race, ranker, embed>>
vars == <<sessions, audit, dbUrlSet, last, index, checkedOut, call, chunker, race, ranker, embed>>

\* ------------------------------------------------------- the stage gate
\* Faulty variant: past the end of the order no stage is named, so a session
\* with every stage completed has no next allowed stage.
RECURSIVE FirstNotCompleted_NoFixedPoint(_, _)
FirstNotCompleted_NoFixedPoint(completed, i) ==
  IF i > Len(STAGES_ORDER) THEN NoStage
  ELSE IF STAGES_ORDER[i] \notin completed THEN STAGES_ORDER[i]
  ELSE FirstNotCompleted_NoFixedPoint(completed, i + 1)

RECURSIVE FirstNotCompleted(_, _)
FirstNotCompleted(completed, i) ==
  IF i > Len(STAGES_ORDER) THEN STAGES_ORDER[Len(STAGES_ORDER)]
  ELSE IF STAGES_ORDER[i] \notin completed THEN STAGES_ORDER[i]
  ELSE FirstNotCompleted(completed, i + 1)

\* Faulty variant: the scan starts at the second stage of the order.
getNextAllowedStage_OffByOne(completedStages) == FirstNotCompleted(Range(completedStages), 2)

getNextAllowedStage(completedStages) == FirstNotCompleted(Range(completedStages), 1)

\* Faulty variant: the repeat of a completed stage is not recognised.
isStageAllowed_NoRepeat(completedStages, stage) ==
  IF stage \notin VALID_STAGES THEN FALSE
  ELSE stage = getNextAllowedStage(completedStages)

\* Faulty variant: any valid stage passes, so a skip is let through.
isStageAllowed_AnyValid(completedStages, stage) == stage \in VALID_STAGES

isStageAllowed(completedStages, stage) ==
  IF stage \notin VALID_STAGES THEN FALSE
  ELSE IF stage \in Range(completedStages) THEN TRUE
  ELSE stage = getNextAllowedStage(completedStages)

\* Array.from(completedSet).sort(by index in STAGES_ORDER)
SortByStageOrder(set) == SelectSeq(STAGES_ORDER, LAMBDA s : s \in set)

\* Faulty variant: C falls through to the full-answer branch.
ResponseTypeOf_OnlyK(stage) ==
  IF stage = "B" THEN RESPONSE_TYPE.HARD_STOP
  ELSE IF stage = "K" THEN RESPONSE_TYPE.INFO_ONLY
  ELSE RESPONSE_TYPE.FULL_ANSWER

ResponseTypeOf(stage) ==
  IF stage = "B" THEN RESPONSE_TYPE.HARD_STOP
  ELSE IF stage = "K" \/ stage = "C" THEN RESPONSE_TYPE.INFO_ONLY
  ELSE RESPONSE_TYPE.FULL_ANSWER

\* The row found, as a set: empty when the id is missing or matches no row.
getSession(rows, sessionId) ==
  IF sessionId = NoId \/ sessionId \notin DOMAIN rows THEN {} ELSE {rows[sessionId]}

\* Faulty variant: a gate evaluation that rejects leaves a new session row
\* behind, as if the session were created when none was found.
GateReject_CreatesRow(error, next, rows) ==
  [ok |-> FALSE, threw |-> FALSE, error |-> error, next |-> next,
   responseType |-> NoType,
   rows |-> Append(rows, [completed_stages |-> <<>>, updated_at |-> 0]),
   wrote |-> TRUE]

\* Faulty variant: a gate evaluation that should reject lets the request
\* through as a full answer.
GateReject_Allows(error, next, rows) ==
  [ok |-> TRUE, threw |-> FALSE, error |-> "none", next |-> NoStage,
   responseType |-> RESPONSE_TYPE.FULL_ANSWER, rows |-> rows, wrote |-> FALSE]

GateReject(error, next, rows) ==
  [ok |-> FALSE, threw |-> FALSE, error |-> error, next |-> next,
   responseType |-> NoType, rows |-> rows, wrote |-> FALSE]

GateThrow(rows) == [GateReject("gate_error", NoStage, rows) EXCEPT !.threw = TRUE]

GateOk(stage, rows, wrote) ==
  [ok |-> TRUE, threw |-> FALSE, error |-> "none", next |-> NoStage,
   responseType |-> ResponseTypeOf(stage), rows |-> rows, wrote |-> wrote]

\* new Date() at an update of a row: a time later than the one the row holds.
\* Times are compared only within one row, so each row counts its own.
Later(t) == t + 1

\* Faulty variant: the update stores the new stage alone instead of the merged set.
AdvanceRow_Overwrite(rows, sessionId, stage) ==
  [rows EXCEPT ![sessionId].completed_stages = <<stage>>,
               ![sessionId].updated_at = Later(rows[sessionId].updated_at)]

\* Faulty variant: the update stores the stages and leaves updated_at alone.
AdvanceRow_KeepsTime(rows, sessionId, stage) ==
  [rows EXCEPT ![sessionId].completed_stages =
                  SortByStageOrder(Range(rows[sessionId].completed_stages) \cup {stage})]

\* Faulty variant: the update is skipped and the row stays as it was read.
AdvanceRow_NotStored(rows, sessionId, stage) == rows

\* session.update({completed_stages, updated_at}) for a stage not yet completed
AdvanceRow(rows, sessionId, stage) ==
  [rows EXCEPT ![sessionId].completed_stages =
                  SortByStageOrder(Range(rows[sessionId].completed_stages) \cup {stage}),
               ![sessionId].updated_at = Later(rows[sessionId].updated_at)]

\* The results one gate evaluation can have, each with the rows it leaves: the
\* database calls it makes (findByPk, update) either succeed or throw.
validateAndAdvance(rows, sessionId, stage) ==
  IF stage = "" \/ stage \notin VALID_STAGES
    THEN {GateReject("stage_required", NoStage, rows)}
  ELSE IF sessionId = NoId
    THEN {GateReject("session_id_required", NoStage, rows)}
  ELSE {GateThrow(rows)} \cup
    IF getSession(rows, sessionId) = {}
      THEN {GateReject("invalid_session", NoStage, rows)}
    ELSE LET completed_stages == rows[sessionId].completed_stages IN
      IF ~isStageAllowed(completed_stages, stage)
        THEN {GateReject("invalid_transition", getNextAllowedStage(completed_stages), rows)}
      ELSE IF stage \notin Range(completed_stages)
        THEN {GateThrow(rows), GateOk(stage, AdvanceRow(rows, sessionId, stage), TRUE)}
      ELSE {GateOk(stage, rows, FALSE)}

\* ResearchAuditLog.create inside logAudit's try/catch: the logs one call can
\* leave, a failed write being swallowed.
logAudit(log, sessionId, stage, responseType) ==
  {log, Append(log, [session_id |-> sessionId, stage |-> stage,
                     response_type |-> responseType])}

\* ------------------------------------------------- the answer path
\* What retrieval and the LLM do in one request.  The LLM is consulted only
\* when retrieval found something.
KernelEnvs == {e \in [retrieval : {"empty", "hits", "throws"},
                      llm : {"null", "text", "unavailable"}] :
                 e.retrieval # "hits" => e.llm = "null"}

\* RAGService.generateAnswer(query, 5, filter, true): retrieval, then the LLM
\* when it is available and retrieval found something.
generateAnswer(env) ==
  IF env.retrieval = "throws"
    THEN [answer |-> NULL, results |-> "none", retrieval |-> TRUE, llm |-> FALSE]
  ELSE IF env.retrieval = "empty"
    THEN [answer |-> NULL, results |-> "empty", retrieval |-> TRUE, llm |-> FALSE]
  ELSE IF env.llm # "unavailable"
    THEN [answer |-> IF env.llm = "text" THEN "generated" ELSE NULL,
          results |-> "hits", retrieval |-> TRUE, llm |-> TRUE]
  ELSE [answer |-> NULL, results |-> "hits", retrieval |-> TRUE, llm |-> FALSE]

\* Faulty variant: the kernel allows whenever retrieval found documents, even
\* if no answer was generated.
processUserIntent_AllowOnHits(env) ==
  LET docResult == generateAnswer(env) IN
    IF docResult.results # "hits"
      THEN [docResult EXCEPT !.results = "none"] @@ [decision |-> "stop"]
      ELSE docResult @@ [decision |-> "allow"]

\* Kernel.processUserIntent(query, null, null, filter)
processUserIntent(env) ==
  LET docResult == generateAnswer(env) IN
    IF docResult.answer = NULL
      THEN [docResult EXCEPT !.results = "none"] @@ [decision |-> "stop"]
      ELSE docResult @@ [decision |-> "allow"]

\* stripSuggestions applied to a K/C answer, as a token
stripSuggestions(answer) == IF answer = NULL THEN NULL ELSE "generated_stripped"

\* ------------------------------------------------------- vector store data
\* Chunks handed to addDocuments in one call (texts[i], metadatas[i]).
MaxChunks == 2
Filenames == {"f", "g"}
\* chunker.js numbers the chunks of a file from 0: file f has the chunks "a"
\* and "b", file g the single chunk "a".
Chunk(text, filename, chunk_index) ==
  [text |-> text, metadata |-> [filename |-> filename, chunk_index |-> chunk_index]]
Chunks == {Chunk("a", "f", 0), Chunk("b", "f", 1), Chunk("a", "g", 0)}
ChunkLists == UNION {[1..n -> Chunks] : n \in 0..MaxChunks}
\* Where the embeddings of one call come from: the local model, or the API
\* fallback (part_007:300-315). The stored vector differs between the two.
Embeddings == {"local", "api"}

\* md5 is taken as injective on the content string; `x || ''` turns a
\* chunk_index of 0 into the empty string.
_generateId(text, metadata) ==
  text \o "_" \o metadata.filename \o "_" \o
    (IF metadata.chunk_index = 0 THEN "" ELSE ToString(metadata.chunk_index))

IdsOf(chunks) ==
  [i \in 1..Len(chunks) |-> _generateId(chunks[i].text, chunks[i].metadata)]

\* Faulty variant: a plain INSERT that adds the row whatever the table holds.
Upsert_InsertOnly(idx, row) == idx \cup {row}

\* INSERT ... ON CONFLICT (id) DO UPDATE SET embedding, document, metadata
Upsert(idx, row) == {r \in idx : r.id # row.id} \cup {row}

\* The first k statements of the insert loop, each one committed on its own:
\* the call never issues BEGIN, so the connection is in autocommit mode.
RECURSIVE Inserted(_, _, _, _, _)
Inserted(idx, chunks, ids, embedding, k) ==
  IF k = 0 THEN idx
  ELSE Upsert(Inserted(idx, chunks, ids, embedding, k - 1),
              [id |-> ids[k], document |-> chunks[k].text,
               metadata |-> chunks[k].metadata, embedding |-> embedding])

RowIds(idx) == {r.id : r \in idx}

\* Faulty variant: the WHERE clause is dropped and every row matches.
Matching_All(idx, filename) == idx

\* WHERE metadata->>'filename' = $1
Matching(idx, filename) == {r \in idx : r.metadata.filename = filename}

NoCall ==
  [op |-> "none", pc |-> "idle", chunks |-> <<>>, ids |-> <<>>, filter |-> NULL,
   embedding |-> NULL, before |-> {}, status |-> "none", error |-> FALSE,
   caught |-> FALSE, count |-> 0, rows |-> {}, acquired |-> 0, released |-> 0,
   failedRow |-> 0, again |-> FALSE, prevIds |-> <<>>,
   deleted |-> NULL, deletedFrom |-> {}]

StoreIdle ==
  /\ index = {}
  /\ checkedOut = 0
  /\ call = NoCall

\* No chunkText call has been made.
NoChunking == [text |-> <<>>, size |-> 0, overlap |-> 0, done |-> FALSE, chunks |-> <<>>]

\* Gate evaluations that may overlap on one session.
MaxEvals == 3
Evals == 1..MaxEvals

\* An evaluation that is not running, or has returned.
NoEval == [pc |-> "idle", stage |-> NoStage, completed_stages |-> <<>>]

\* A session just created, with no evaluation running on it.
NoRace == [row |-> <<>>, evals |-> [p \in Evals |-> NoEval]]

\* No RAGService.search call has been made.
NoRanking == [query |-> "", rows |-> <<>>, done |-> FALSE, ranked |-> <<>>]

\* this.embeddingDim = 384, the constructor's default
DefaultDim == 384

\* What one entry of an embeddings list can be: an array of len entries
\* (numeric or not), a number, or an object that is no array with len values.
Array(len) == [kind |-> "array", len |-> len, numeric |-> TRUE]
Number == [kind |-> "number", len |-> 0, numeric |-> TRUE]
ErrorObject == [kind |-> "object", len |-> 1, numeric |-> FALSE]

\* A store that loads no model and has no call in progress.
NoEmbed ==
  [modelDim |-> DefaultDim, openaiKey |-> FALSE,
   load |-> "none", embeddingModel |-> FALSE, embeddingDim |-> DefaultDim,
   init |-> "none", tableDim |-> 0,
   op |-> "none", pc |-> "idle", texts |-> 0, raw |-> <<>>, embeddings |-> <<>>,
   normDim |-> 0, handed |-> <<>>, status |-> "none", error |-> "none"]

OthersIdle ==
  /\ chunker = NoChunking
  /\ race = NoRace
  /\ ranker = NoRanking
  /\ embed = NoEmbed

\* --------------------------------------------------------------- requests
NoResponse ==
  [op |-> "none", query |-> "", stage |-> "", session_id |-> NoId, generate_answer |-> FALSE,
   status |-> 0, error |-> "none", next_allowed |-> NoStage, authorized |-> FALSE,
   gate_type |-> NoType, response_type |-> NoType, answer |-> NULL, decision |-> "none",
   results |-> "none", retrieval |-> FALSE, llm |-> FALSE]

Init ==
  /\ sessions = <<>>
  /\ audit = <<>>
  /\ dbUrlSet \in BOOLEAN
  /\ last = NoResponse
  /\ StoreIdle
  /\ OthersIdle

\* POST /research/session -> getOrCreateSession(null, userId)
CreateSession ==
  /\ UNCHANGED <<storeVars, otherVars>>
  /\ last = NoResponse
  /\ Cardinality(DOMAIN sessions) < MaxSessions
  /\ LET id == Cardinality(DOMAIN sessions) + 1 IN
       /\ sessions' = [i \in DOMAIN sessions \cup {id} |->
                         IF i = id THEN [completed_stages |-> <<>>, updated_at |-> 0]
                         ELSE sessions[i]]
       /\ last' = [NoResponse EXCEPT !.op = "createSession", !.session_id = id, !.status = 200]
  /\ UNCHANGED <<audit, dbUrlSet>>

\* toUpperCase().trim() of the stage parameter
NormalizeStage(raw) ==
  CASE raw = " b" -> "B"
    [] raw = "x" -> "X"
    [] OTHER -> raw

\* The handler returns: the rows and the audit log it leaves, and its response.
\* The audit table is kept to MaxAudit rows.
Outcome(rows, log, resp) ==
  /\ Len(log) <= MaxAudit
  /\ sessions' = rows
  /\ audit' = log
  /\ last' = resp

\* Faulty variant: the hard-stop test compares with the lower-case code and never matches.
IsHardStop_LowerCase(stage) == stage = "b"

\* The test that sends an authorized request to the hard-stop branch.
IsHardStop(stage) == stage = "B"

\* Faulty variant: a rejected request is written to the audit log.
RejectedLog_Logged(log, sessionId, stage) ==
  Append(log, [session_id |-> sessionId, stage |-> stage, response_type |-> "rejected"])

\* A request the gate did not authorize returns without a logAudit call.
RejectedLog(log, sessionId, stage) == log

\* The part of GET /search after the gate has authorized the request.
Authorized(ok, stage, sessionId, gate) ==
  IF IsHardStop(stage)
    THEN \E log \in logAudit(audit, sessionId, stage, gate.responseType) :
           Outcome(gate.rows, log,
                   [ok EXCEPT !.status = 200, !.answer = HARD_STOP_MESSAGE, !.results = "empty",
                              !.response_type = gate.responseType])
  ELSE IF ~dbUrlSet
    THEN \* getKernel() throws in the RAGService constructor
      Outcome(gate.rows, audit, [ok EXCEPT !.status = 500, !.error = "search_error"])
  ELSE \E env \in KernelEnvs :
    LET kernelResult == processUserIntent(env) IN
      IF kernelResult.decision = "block" \/ kernelResult.decision = "stop"
        THEN \E log \in logAudit(audit, sessionId, stage, "blocked") :
               Outcome(gate.rows, log,
                       [ok EXCEPT !.status = 200, !.error = "blocked", !.results = "empty",
                                  !.decision = kernelResult.decision,
                                  !.retrieval = kernelResult.retrieval,
                                  !.llm = kernelResult.llm])
        ELSE \E log \in logAudit(audit, sessionId, stage, gate.responseType) :
               Outcome(gate.rows, log,
                       [ok EXCEPT !.status = 200,
                                  !.answer = IF stage = "K" \/ stage = "C"
                                               THEN stripSuggestions(kernelResult.answer)
                                               ELSE kernelResult.answer,
                                  !.results = kernelResult.results,
                                  !.decision = kernelResult.decision,
                                  !.response_type = gate.responseType,
                                  !.retrieval = kernelResult.retrieval,
                                  !.llm = kernelResult.llm])

\* GET /search for one request, from the first parameter check to the response.
SearchHandler(query, rawStage, sessionId, generateAnswer_) ==
  LET stage == NormalizeStage(rawStage)
      req == [NoResponse EXCEPT !.op = "search", !.query = query, !.stage = stage,
                                !.session_id = sessionId, !.generate_answer = generateAnswer_]
      Keep(resp) == Outcome(sessions, audit, resp)
      Rejected(resp) == Outcome(sessions, RejectedLog(audit, sessionId, stage), resp)
  IN
  IF query = ""
    THEN \* returns before any other parameter is read
      Keep([NoResponse EXCEPT !.op = "search", !.status = 400, !.error = "query_required"])
  ELSE IF ~generateAnswer_
    THEN \* plain search, no stage required
      IF ~dbUrlSet
        THEN Keep([req EXCEPT !.status = 500, !.error = "search_error"])
        ELSE \/ Keep([req EXCEPT !.status = 500, !.error = "search_error", !.retrieval = TRUE])
             \/ \E results \in {"empty", "hits"} :
                  Keep([req EXCEPT !.status = 200, !.results = results, !.retrieval = TRUE])
  ELSE IF stage = "" \/ stage \notin VALID_STAGES
    THEN Rejected([req EXCEPT !.status = 400, !.error = "stage_required"])
  ELSE \E gate \in validateAndAdvance(sessions, sessionId, stage) :
    IF gate.threw
      THEN Outcome(gate.rows, audit, [req EXCEPT !.status = 500, !.error = "gate_error"])
    ELSE IF ~gate.ok
      THEN Outcome(gate.rows, RejectedLog(audit, sessionId, stage),
                   [req EXCEPT !.status = 400, !.error = gate.error,
                               !.next_allowed = gate.next])
    ELSE Authorized([req EXCEPT !.authorized = TRUE, !.gate_type = gate.responseType],
                    stage, sessionId, gate)

\* The requests a client sends, one for each way the handler reads them.
\* A request without a query is answered before any other parameter is read.
\* A plain search (generate_answer=false) reads neither the stage nor the
\* session id.  An invalid stage is rejected before the session id is read,
\* and a missing or unknown session id before the stage is compared with the
\* session.
Request(query, rawStage, sessionId, generateAnswer_) ==
  [query |-> query, rawStage |-> rawStage, sessionId |-> sessionId,
   generateAnswer_ |-> generateAnswer_]
Requests ==
  {Request("", "", NoId, TRUE)}
    \cup {Request(q, st, NoId, FALSE) : q \in Queries \ {""}, st \in {"B", ""}}
    \cup {Request(q, st, id, TRUE) :
            q \in Queries \ {""}, st \in RawStages \ VALID_STAGES, id \in {NoId, 1}}
    \cup {Request(q, st, id, TRUE) :
            q \in Queries \ {""}, st \in {"K", "B"}, id \in {NoId, UnknownId}}
    \cup {Request(q, st, id, TRUE) :
            q \in Queries \ {""}, st \in RawStages, id \in SessionIds}

\* One GET /search request, run to completion.
Search ==
  /\ UNCHANGED <<storeVars, otherVars>>
  /\ last = NoResponse
  /\ \E r \in Requests :
       SearchHandler(r.query, r.rawStage, r.sessionId, r.generateAnswer_)
  /\ UNCHANGED dbUrlSet

\* GET /search of the server variant without the stage gate (the second
\* application in the file): the kernel is called for every query that asks
\* for an answer; no session is read and no audit entry is written.
SearchUngated ==
  /\ UNCHANGED <<storeVars, otherVars>>
  /\ last = NoResponse
  /\ \E query \in Queries, generateAnswer_ \in BOOLEAN :
       LET req == [NoResponse EXCEPT !.op = "searchUngated", !.query = query,
                                     !.generate_answer = generateAnswer_]
       IN
       IF query = ""
         THEN last' = [NoResponse EXCEPT !.op = "searchUngated", !.status = 400,
                                         !.error = "query_required"]
       ELSE IF ~dbUrlSet
         THEN \* getKernel() / getRagService() throws in the RAGService constructor
           last' = [req EXCEPT !.status = 500, !.error = "search_error"]
       ELSE IF generateAnswer_
         THEN \E env \in KernelEnvs :
           LET kernelResult == processUserIntent(env) IN
             IF kernelResult.decision = "block" \/ kernelResult.decision = "stop"
               THEN last' = [req EXCEPT !.status = 200, !.error = "blocked", !.results = "empty",
                                        !.decision = kernelResult.decision,
                                        !.retrieval = kernelResult.retrieval,
                                        !.llm = kernelResult.llm]
               ELSE last' = [req EXCEPT !.status = 200, !.answer = kernelResult.answer,
                                        !.results = kernelResult.results,
                                        !.decision = kernelResult.decision,
                                        !.retrieval = kernelResult.retrieval,
                                        !.llm = kernelResult.llm]
       ELSE \/ last' = [req EXCEPT !.status = 500, !.error = "search_error", !.retrieval = TRUE]
            \/ \E results \in {"empty", "hits"} :
                 last' = [req EXCEPT !.status = 200, !.results = results, !.retrieval = TRUE]
  /\ UNCHANGED <<sessions, audit, dbUrlSet>>

\* RAGService.checkContradictions / checkRisks: the analysis is asked of
\* llmService.generateAnswer, which answers null without a call when no API
\* key is configured, and null when the call fails.
checkAgent(llm) ==
  [analysis |-> IF llm = "text" THEN "generated" ELSE NULL, llm |-> llm # "unavailable"]

\* POST /agent/contradiction and POST /agent/risk
Agent ==
  /\ UNCHANGED <<storeVars, otherVars>>
  /\ last = NoResponse
  /\ \E agent \in {"agentContradiction", "agentRisk"}, complete \in BOOLEAN,
        llm \in {"null", "text", "unavailable"} :
       LET req == [NoResponse EXCEPT !.op = agent, !.query = IF complete THEN "q1" ELSE ""]
       IN
       IF ~complete
         THEN last' = [req EXCEPT !.status = 400, !.error = "fields_required"]
       ELSE IF ~dbUrlSet
         THEN last' = [req EXCEPT !.status = 500, !.error = "agent_error"]
       ELSE last' = [req EXCEPT !.status = 200, !.answer = checkAgent(llm).analysis,
                                !.llm = checkAgent(llm).llm]
  /\ UNCHANGED <<sessions, audit, dbUrlSet>>

\* res.json(...): the response leaves the server; the next request starts
\* after it.
Deliver ==
  /\ UNCHANGED <<storeVars, otherVars>>
  /\ last # NoResponse
  /\ last' = NoResponse
  /\ UNCHANGED <<sessions, audit, dbUrlSet>>

Next == CreateSession \/ Search \/ SearchUngated \/ Agent \/ Deliver

Spec == Init /\ [][Next]_vars

\* ------------------------------------------------- vector store operations
\* One operation runs at a time; it starts when the previous one has
\* settled, and remembers what the index held when it started.
Settled == call.pc \in {"idle", "done"}

NewCall(op) == [NoCall EXCEPT !.op = op, !.before = index]

\* The call that just settled was an ingestion of the same chunks that
\* returned its ids.
IngestedJustBefore(chunks) ==
  call.op = "addDocuments" /\ call.status = "returned" /\ call.chunks = chunks

\* return in a try block or after it: the finally block runs next
Returned(c) == [c EXCEPT !.pc = "finally", !.status = "returned"]

\* an exception in a try block: the catch block runs next
Thrown(c) == [c EXCEPT !.pc = "catch", !.caught = TRUE]

\* Faulty variant: an exception that leaves the catch block skips the release.
Rethrown_NoFinally(c) == [c EXCEPT !.pc = "done", !.status = "thrown"]

\* an exception leaving a catch block: the finally block still runs
Rethrown(c) == [c EXCEPT !.pc = "finally", !.status = "thrown"]

\* an exception before the connection is checked out leaves the operation
Rejected(c) == [c EXCEPT !.pc = "done", !.status = "thrown"]

\* const client = await this.pool.connect(), the statement before each try
Connect(c) ==
  /\ UNCHANGED <<index, gateVars, otherVars>>
  /\ \/ /\ checkedOut' = checkedOut + 1
        /\ call' = [c EXCEPT !.pc = "try", !.acquired = 1]
     \/ /\ call' = Rejected(c)
        /\ UNCHANGED checkedOut

_initCollection ==
  /\ Settled
  /\ Connect(NewCall("_initCollection"))

addDocuments ==
  /\ Settled
  /\ \E chunks \in ChunkLists, embedding \in Embeddings :
       LET c == [NewCall("addDocuments") EXCEPT
                   !.chunks = chunks,
                   !.again = IngestedJustBefore(chunks),
                   !.prevIds = IF IngestedJustBefore(chunks) THEN call.ids ELSE <<>>] IN
       IF Len(chunks) = 0
         THEN /\ call' = [c EXCEPT !.pc = "done", !.status = "returned"]
              /\ UNCHANGED <<index, checkedOut, gateVars, otherVars>>
       ELSE \/ /\ embedding = "api"          \* Invalid embedding format
               /\ call' = Rejected(c)
               /\ UNCHANGED <<index, checkedOut, gateVars, otherVars>>
            \/ Connect([c EXCEPT !.embedding = embedding, !.ids = IdsOf(chunks)])

search ==
  /\ Settled
  /\ \E filter \in Filenames \cup {NULL} :
       LET c == [NewCall("search") EXCEPT !.filter = filter] IN
       \/ /\ call' = Rejected(c)             \* embeddings[0] is undefined
          /\ UNCHANGED <<index, checkedOut, gateVars, otherVars>>
       \/ Connect(c)

\* The call that just settled was a delete by filename that reported no error.
DeletedJustBefore ==
  /\ call.op = "deleteDocuments" /\ call.status = "returned" /\ ~call.error
  /\ Len(call.ids) = 0 /\ call.filter # NULL

\* SELECT DISTINCT metadata->>'filename' ... IS NOT NULL, then .filter(f => f)
ListedFilenames(idx) == {r.metadata.filename : r \in idx} \ {""}

getAllFilenames ==
  /\ Settled
  /\ Connect([NewCall("getAllFilenames") EXCEPT
                !.deleted = IF DeletedJustBefore THEN call.filter ELSE NULL,
                !.deletedFrom = IF DeletedJustBefore THEN call.before ELSE {}])

getCollectionInfo ==
  /\ Settled
  /\ Connect(NewCall("getCollectionInfo"))

\* deleteDocuments(ids, filterMetadata): ids as the ids of some chunks, the
\* filter as {filename: F}; either may be absent.
deleteDocuments ==
  /\ Settled
  /\ \E chunks \in ChunkLists, filter \in Filenames \cup {NULL} :
       /\ Len(chunks) > 0 => filter = NULL
       /\ Connect([NewCall("deleteDocuments") EXCEPT !.ids = IdsOf(chunks), !.filter = filter])

resetCollection ==
  /\ Settled
  /\ Connect(NewCall("resetCollection"))

\* The statements of the try block, up to its return or its first exception.
TryBlock ==
  /\ call.pc = "try"
  /\ UNCHANGED <<checkedOut, gateVars, otherVars>>
  /\ CASE call.op = "_initCollection" ->
            /\ UNCHANGED index
            /\ call' \in {Returned(call), Thrown(call)}
       [] call.op = "addDocuments" ->
            \E k \in 0..Len(call.chunks) :
              /\ index' = Inserted(index, call.chunks, call.ids, call.embedding, k)
              /\ IF k < Len(call.chunks)
                   THEN call' = [Thrown(call) EXCEPT !.failedRow = k + 1] \* INSERT throws
                   ELSE call' \in {Returned(call), Thrown(call)}   \* COMMIT
       [] call.op = "search" ->
            /\ UNCHANGED index
            /\ \/ call' = Thrown(call)                             \* COUNT throws
               \/ /\ index = {}
                  /\ call' = Returned(call)                        \* return []
               \/ /\ index # {}
                  /\ call' \in
                       {Thrown(call),
                        Returned([call EXCEPT !.rows =
                           RowIds(IF call.filter = NULL THEN index
                                  ELSE Matching(index, call.filter))])}
       [] call.op = "getAllFilenames" ->
            /\ UNCHANGED index
            /\ call' \in
                 {Thrown(call),
                  Returned([call EXCEPT !.rows = ListedFilenames(index)])}
       [] call.op = "getCollectionInfo" ->
            /\ UNCHANGED index
            /\ call' \in {Thrown(call), Returned([call EXCEPT !.count = Cardinality(index)])}
       [] call.op = "deleteDocuments" ->
            IF Len(call.ids) = 0 /\ call.filter = NULL
              THEN /\ UNCHANGED index
                   /\ call' = Returned([call EXCEPT !.error = TRUE])
            ELSE LET gone == IF Len(call.ids) > 0
                               THEN {r \in index : r.id \in Range(call.ids)}
                               ELSE Matching(index, call.filter) IN
              \/ /\ UNCHANGED index                                \* DELETE throws
                 /\ call' = Thrown(call)
              \/ /\ index' = index \ gone
                 /\ call' \in {Returned([call EXCEPT !.count = Cardinality(gone)]),
                               Thrown(call)}                       \* COMMIT
       [] call.op = "resetCollection" ->
            \/ /\ UNCHANGED index                                  \* TRUNCATE throws
               /\ call' = Thrown(call)
            \/ /\ index' = {}
               /\ call' \in {Returned(call), Thrown(call)}         \* COMMIT

\* The catch block.  ROLLBACK finds no open transaction, since none was
\* begun: what the statements of the try block wrote stays written.
CatchBlock ==
  /\ call.pc = "catch"
  /\ UNCHANGED <<index, checkedOut, gateVars, otherVars>>
  /\ CASE call.op \in {"_initCollection"} ->
            call' \in {Rethrown(call), Returned(call)}
       [] call.op = "addDocuments" ->
            call' = Rethrown(call)
       [] call.op = "search" ->
            call' = Rethrown(call)
       [] call.op = "getAllFilenames" ->
            call' = Returned([call EXCEPT !.rows = {}])
       [] call.op = "getCollectionInfo" ->
            call' = Returned([call EXCEPT !.count = 0])
       [] call.op \in {"deleteDocuments", "resetCollection"} ->
            call' \in {Rethrown(call),
                       Returned([call EXCEPT !.count = 0, !.error = TRUE])}

\* finally { client.release() }
FinallyBlock ==
  /\ call.pc = "finally"
  /\ checkedOut' = checkedOut - 1
  /\ call' = [call EXCEPT !.pc = "done", !.released = @ + 1]
  /\ UNCHANGED <<index, gateVars, otherVars>>

InitStore ==
  /\ sessions = <<>>
  /\ audit = <<>>
  /\ dbUrlSet = TRUE
  /\ last = NoResponse
  /\ StoreIdle
  /\ OthersIdle

NextStore ==
  \/ _initCollection \/ addDocuments \/ search \/ getAllFilenames
  \/ getCollectionInfo \/ deleteDocuments \/ resetCollection
  \/ TryBlock \/ CatchBlock \/ FinallyBlock

SpecStore == InitStore /\ [][NextStore]_vars
\* ------------------------------------------------------------ text chunker
\* Texts are sequences of characters; the chunk size is the constructor's
\* chunkSize (1000 by default), taken small here.
MaxText == 4
MaxChunkSize == 3
Chars == {"a", ".", " ", "\n"}
ChunkerTexts == UNION {[1..n -> Chars] : n \in 0..MaxText}

\* the class \s
IsSpace(c) == c \in {" ", "\n"}

RECURSIVE TrimStart(_)
TrimStart(s) == IF s # <<>> /\ IsSpace(Head(s)) THEN TrimStart(Tail(s)) ELSE s

RECURSIVE TrimEnd(_)
TrimEnd(s) ==
  IF s # <<>> /\ IsSpace(s[Len(s)]) THEN TrimEnd(SubSeq(s, 1, Len(s) - 1)) ELSE s

\* String.prototype.trim
trim(s) == TrimEnd(TrimStart(s))

\* length of the whitespace run at the start of s
RECURSIVE SpaceRun(_)
SpaceRun(s) == IF s # <<>> /\ IsSpace(Head(s)) THEN 1 + SpaceRun(Tail(s)) ELSE 0

\* text.replace(/\s+/g, ' ')
RECURSIVE CollapseWhitespace(_)
CollapseWhitespace(s) ==
  IF s = <<>> THEN <<>>
  ELSE IF IsSpace(Head(s)) THEN <<" ">> \o CollapseWhitespace(TrimStart(s))
  ELSE <<Head(s)>> \o CollapseWhitespace(Tail(s))

RECURSIVE NewlineRun(_)
NewlineRun(s) == IF s # <<>> /\ Head(s) = "\n" THEN 1 + NewlineRun(Tail(s)) ELSE 0

\* cleaned.replace(/\n{3,}/g, '\n\n')
RECURSIVE CollapseNewlines(_)
CollapseNewlines(s) ==
  IF s = <<>> THEN <<>>
  ELSE IF Head(s) = "\n"
    THEN LET n == NewlineRun(s) IN
           (IF n >= 3 THEN <<"\n", "\n">> ELSE SubSeq(s, 1, n))
             \o CollapseNewlines(SubSeq(s, n + 1, Len(s)))
  ELSE <<Head(s)>> \o CollapseNewlines(Tail(s))

_cleanText(text) == trim(CollapseNewlines(CollapseWhitespace(text)))

\* length of the match of /\n\s*\n/ at the start of s, 0 when there is none
ParagraphBreak(s) ==
  IF s = <<>> \/ Head(s) # "\n" THEN 0
  ELSE LET newlines == {i \in 2..SpaceRun(s) : s[i] = "\n"} IN
         IF newlines = {} THEN 0
         ELSE CHOOSE i \in newlines : \A j \in newlines : j <= i

\* text.split(/\n\s*\n/), cur being the piece read so far
RECURSIVE SplitParagraphs(_, _)
SplitParagraphs(s, cur) ==
  IF s = <<>> THEN <<cur>>
  ELSE IF ParagraphBreak(s) > 0
    THEN <<cur>> \o SplitParagraphs(SubSeq(s, ParagraphBreak(s) + 1, Len(s)), <<>>)
  ELSE SplitParagraphs(Tail(s), Append(cur, Head(s)))

\* length of the match of /[.!?]\s+/ at the start of s, 0 when there is none
SentenceEnd(s) ==
  IF s # <<>> /\ Head(s) \in {".", "!", "?"} /\ SpaceRun(Tail(s)) > 0
    THEN 1 + SpaceRun(Tail(s))
    ELSE 0

\* The sentence loop over trimmed.split(/([.!?]\s+)/): sentences are joined
\* until they are longer than chunkSize / 2.
RECURSIVE SplitSentences(_, _, _)
SplitSentences(s, currentSentence, chunkSize) ==
  IF s = <<>>
    THEN IF 2 * Len(currentSentence) > chunkSize \/ trim(currentSentence) # <<>>
           THEN <<trim(currentSentence)>>
           ELSE <<>>
  ELSE IF SentenceEnd(s) > 0
    THEN LET joined == currentSentence \o SubSeq(s, 1, SentenceEnd(s))
             rest == SubSeq(s, SentenceEnd(s) + 1, Len(s))
         IN IF 2 * Len(joined) > chunkSize
              THEN <<trim(joined)>> \o SplitSentences(rest, <<>>, chunkSize)
              ELSE SplitSentences(rest, joined, chunkSize)
  ELSE SplitSentences(Tail(s), Append(currentSentence, Head(s)), chunkSize)

RECURSIVE ParagraphsOf(_, _)
ParagraphsOf(pieces, chunkSize) ==
  IF pieces = <<>> THEN <<>>
  ELSE LET trimmed == trim(Head(pieces)) IN
    (IF trimmed = <<>> THEN <<>>
     ELSE IF Len(trimmed) > chunkSize THEN SplitSentences(trimmed, <<>>, chunkSize)
     ELSE <<trimmed>>)
      \o ParagraphsOf(Tail(pieces), chunkSize)

_splitIntoParagraphs(text, chunkSize) == ParagraphsOf(SplitParagraphs(text, <<>>), chunkSize)

\* chunks.push({text: currentChunk.trim(), metadata: {chunk_index, chunk_size}})
ChunkOf(currentChunk, chunkIndex) ==
  [text |-> trim(currentChunk), chunk_index |-> chunkIndex, chunk_size |-> Len(currentChunk)]

\* The paragraph loop of chunkText and the push of the final chunk.
RECURSIVE Accumulate(_, _, _, _, _)
Accumulate(paragraphs, currentChunk, chunkIndex, size, overlap) ==
  IF paragraphs = <<>>
    THEN IF trim(currentChunk) # <<>> THEN <<ChunkOf(currentChunk, chunkIndex)>> ELSE <<>>
  ELSE LET paragraph == Head(paragraphs) IN
    IF Len(currentChunk) + Len(paragraph) + 1 > size /\ currentChunk # <<>>
      THEN <<ChunkOf(currentChunk, chunkIndex)>> \o
           Accumulate(Tail(paragraphs),
                      IF overlap > 0 /\ Len(currentChunk) > overlap
                        THEN SubSeq(currentChunk, Len(currentChunk) - overlap + 1,
                                    Len(currentChunk)) \o <<"\n">> \o paragraph
                        ELSE paragraph,
                      chunkIndex + 1, size, overlap)
      ELSE Accumulate(Tail(paragraphs),
                      IF currentChunk # <<>> THEN currentChunk \o <<"\n">> \o paragraph
                                             ELSE paragraph,
                      chunkIndex, size, overlap)

\* TextChunker.chunkText(text, metadata) with this.chunkSize = size and
\* this.chunkOverlap = overlap
chunkText(text, size, overlap) ==
  IF text = <<>> \/ trim(text) = <<>> THEN <<>>
  ELSE LET chunks == Accumulate(_splitIntoParagraphs(_cleanText(text), size),
                                <<>>, 0, size, overlap) IN
    IF chunks = <<>> /\ text # <<>>
      THEN <<[text |-> text, chunk_index |-> 0, chunk_size |-> Len(text)]>>
      ELSE chunks

GateIdle ==
  /\ sessions = <<>>
  /\ audit = <<>>
  /\ dbUrlSet = TRUE
  /\ last = NoResponse

InitChunker ==
  /\ GateIdle
  /\ StoreIdle
  /\ chunker \in {[NoChunking EXCEPT !.text = t, !.size = n, !.overlap = o] :
                    t \in ChunkerTexts, n \in 1..MaxChunkSize, o \in {0, 1}}
  /\ race = NoRace
  /\ ranker = NoRanking
  /\ embed = NoEmbed

\* chunker.chunkText(text, metadata), as ingestFile calls it
ChunkTextCall ==
  /\ ~chunker.done
  /\ chunker' = [chunker EXCEPT !.done = TRUE,
                                !.chunks = chunkText(chunker.text, chunker.size, chunker.overlap)]
  /\ UNCHANGED <<gateVars, storeVars, race, ranker, embed>>

NextChunker == ChunkTextCall

SpecChunker == InitChunker /\ [][NextChunker]_vars

\* ------------------------------------------- overlapping gate evaluations
\* validateAndAdvance on one existing session, run by several requests at
\* once.  Each evaluation awaits twice: findByPk, then session.update; the
\* code between the two runs without interruption.
\*
\* const data = await getSession(sessionId), and everything up to the await
\* of session.update: a rejected request and the repeat of a completed stage
\* return here without writing.
GateRead(p) ==
  /\ race.evals[p].pc = "idle"
  /\ \E stage \in VALID_STAGES :
       IF isStageAllowed(race.row, stage) /\ stage \notin Range(race.row)
         THEN race' = [race EXCEPT !.evals[p] =
                          [pc |-> "update", stage |-> stage, completed_stages |-> race.row]]
         ELSE UNCHANGED race
  /\ UNCHANGED <<gateVars, storeVars, chunker, ranker, embed>>

\* await session.update({completed_stages: updated}): the row receives the
\* set computed from what this evaluation read, or the update throws and
\* the evaluation ends without a write.
GateWrite(p) ==
  /\ race.evals[p].pc = "update"
  /\ \/ race' = [race EXCEPT
                   !.row = SortByStageOrder(Range(race.evals[p].completed_stages)
                                              \cup {race.evals[p].stage}),
                   !.evals[p] = NoEval]
     \/ race' = [race EXCEPT !.evals[p] = NoEval]
  /\ UNCHANGED <<gateVars, storeVars, chunker, ranker, embed>>

InitRace ==
  /\ GateIdle
  /\ StoreIdle
  /\ chunker = NoChunking
  /\ race = NoRace
  /\ ranker = NoRanking
  /\ embed = NoEmbed

NextRace == \E p \in Evals : GateRead(p) \/ GateWrite(p)

SpecRace == InitRace /\ [][NextRace]_vars

\* ------------------------------------------------------- relevance ranker
\* Cosine distances (embedding <=> query) are counted in quarters, 0..8 for
\* 0.0..2.0; scores are counted in eightieths.
CosineDistances == 0..8
Documents == {"match", "other"}

\* What SupabaseVectorStore.search returns for the rows it found, nearest
\* first: SELECT ... 1 - (embedding <=> $q) AS distance ... ORDER BY
\* embedding <=> $q, then `row.distance ? parseFloat(row.distance) : null`.
\* The distance field is <<>> for null and <<v>> for the number v.
FormattedResult(id, document, cosine) ==
  [id |-> id, document |-> document, cosine |-> cosine,
   distance |-> IF 4 - cosine = 0 THEN <<>> ELSE <<4 - cosine>>]

\* Factor 1 of the ranker, in eightieths:
\* distance < 999 => score += Math.max(0, 1 - distance / 2.0) * 0.4
DistanceTerm(result) ==
  IF result.distance = <<>> THEN 0
  ELSE IF 8 - result.distance[1] < 0 THEN 0
  ELSE 4 * (8 - result.distance[1])

\* Factors 2 to 5 read the document text and the query only.  Here the
\* document "match" holds every word of the query and "other" holds none.
TextTerms(result) == IF result.document = "match" THEN 72 ELSE 0

relevance_score(result) == DistanceTerm(result) + TextTerms(result)

\* scoredResults.sort((a, b) => b.relevance_score - a.relevance_score): the
\* place of element i in the sorted list; elements of equal score keep
\* their order.
PlaceOf(scored, i) ==
  1 + Cardinality({j \in DOMAIN scored :
                     \/ relevance_score(scored[j]) > relevance_score(scored[i])
                     \/ relevance_score(scored[j]) = relevance_score(scored[i]) /\ j < i})

Sorted(scored) ==
  [k \in DOMAIN scored |-> scored[CHOOSE i \in DOMAIN scored : PlaceOf(scored, i) = k]]

InitRanker ==
  /\ GateIdle
  /\ StoreIdle
  /\ chunker = NoChunking
  /\ race = NoRace
  /\ embed = NoEmbed
  /\ \E d1 \in Documents, d2 \in Documents, c1 \in CosineDistances, c2 \in CosineDistances :
       /\ c1 <= c2
       /\ ranker = [NoRanking EXCEPT
                      !.query = "q1",
                      !.rows = <<FormattedResult("r1", d1, c1), FormattedResult("r2", d2, c2)>>]

\* RAGService.search(query): re-rank what the store returned
RankResults ==
  /\ ~ranker.done
  /\ ranker' = [ranker EXCEPT !.done = TRUE, !.ranked = Sorted(ranker.rows)]
  /\ UNCHANGED <<gateVars, storeVars, chunker, race, embed>>

NextRanker == RankResults

SpecRanker == InitRanker /\ [][NextRanker]_vars

\* ----------------------------------------------- entry points of the writes
\* A statement of the write failed: connect() rejected, or a statement of the
\* try block threw and the catch block ran.
WriteFailed(c) ==
  /\ c.op \in {"addDocuments", "deleteDocuments", "resetCollection"}
  /\ c.pc = "done"
  /\ c.caught \/ (c.status = "thrown" /\ c.acquired = 0)

\* RAGService.ingestFile: success: true with the ids unless addDocuments threw
IngestFileSucceeds(c) == c.status = "returned"

\* router.delete("/files/:filename"): success: true with
\* result.deleted_count || 0, unless deleteDocuments threw
AdminDeleteFileSucceeds(c) == c.status = "returned"

\* RAGService.deleteDocuments(ids): result.deleted_count > 0, and the route
\* app.delete("/documents") answers success: true for true
DeleteDocumentsSucceeds(c) == c.status = "returned" /\ ~c.error /\ c.count > 0

\* RAGService.resetDatabase: the boolean of resetCollection, and the route
\* app.post("/reset") answers success: true for true
ResetDatabaseSucceeds(c) == c.status = "returned" /\ ~c.error

\* What the entry point that made the call answers its caller.
ReportsSuccess(c) ==
  CASE c.op = "addDocuments" -> IngestFileSucceeds(c)
    [] c.op = "deleteDocuments" /\ Len(c.ids) > 0 -> DeleteDocumentsSucceeds(c)
    [] c.op = "deleteDocuments" /\ Len(c.ids) = 0 -> AdminDeleteFileSucceeds(c)
    [] c.op = "resetCollection" -> ResetDatabaseSucceeds(c)
    [] OTHER -> FALSE

\* ------------------------------------------------------------- embeddings
\* Vectors are kept by their length.  MaxTexts bounds the texts of one call.
MaxTexts == 2
ModelDims == {DefaultDim, 768}
RawLens == {256, DefaultDim, 1536}

\* Faulty variant: a short vector is stored as it came.
FitDimension_NoPad(arr, dim) ==
  [arr EXCEPT !.len = IF arr.len > dim THEN dim ELSE arr.len]

\* embeddingArray.slice(0, dim) for a longer array, push(0) until the length
\* is dim for a shorter one
FitDimension(arr, dim) ==
  [arr EXCEPT !.len = IF arr.len > dim THEN dim ELSE arr.len + (dim - arr.len)]

\* _fallbackEmbedding(text): this.embeddingDim numbers from the sha256 digest
_fallbackEmbedding(dim) == Array(dim)

\* What the Hugging Face API can answer for one text: no answer (exception,
\* timeout), a status other than 200, or 200 with a nested array [[...]], a
\* flat array [x, ...] with x # 0, or an object such as {error: "..."}.
HFResponses ==
  {[status |-> st, shape |-> "none", len |-> 0] : st \in {0, 503}}
    \cup {[status |-> 200, shape |-> "nested", len |-> l] : l \in RawLens}
    \cup {[status |-> 200, shape |-> "flat", len |-> DefaultDim]}
    \cup {[status |-> 200, shape |-> "object", len |-> 1]}

\* The entry pushed for one text by the loop of _generateEmbeddingsApi:
\* `embedding[0] || embedding` of an array, the data itself otherwise, the
\* fallback for a non-200 status or an exception.
HFEmbedding(response, dim) ==
  IF response.status # 200 THEN _fallbackEmbedding(dim)
  ELSE CASE response.shape = "nested" -> Array(response.len)
         [] response.shape = "flat" -> Number
         [] response.shape = "object" -> ErrorObject

\* _generateOpenAIEmbeddings: response.data.data.map(item => item.embedding),
\* one entry per item of the answer ("short": one item fewer than texts), or
\* an exception (request failed, non-200, no data field).
OpenAIOutcomes == {"ok", "short", "throws"}
_generateOpenAIEmbeddings(outcome, n) ==
  [i \in 1..(IF outcome = "short" THEN n - 1 ELSE n) |-> Array(1536)]

\* _generateEmbeddingsApi(texts): OpenAI first when a key is set, then the
\* Hugging Face loop, which never throws
_generateEmbeddingsApi(openaiKey, openai, hf, n, dim) ==
  IF openaiKey /\ openai # "throws"
    THEN _generateOpenAIEmbeddings(openai, n)
    ELSE [i \in 1..n |-> HFEmbedding(hf[i], dim)]

\* The embeddings of n texts: the local model when it is loaded and does not
\* throw, the API otherwise.
GenerateEmbeddings(e, localOk, openai, hf, n) ==
  IF e.embeddingModel /\ localOk
    THEN [i \in 1..n |-> Array(e.modelDim)]
    ELSE _generateEmbeddingsApi(e.openaiKey, openai, hf, n, e.embeddingDim)

\* What the providers can do in one call for n texts: whether the local model
\* answers (when loaded), what OpenAI does (when asked), what Hugging Face
\* answers for each text (when asked).
NotAsked == [status |-> 0, shape |-> "none", len |-> 0]
ProviderOutcomes(e, n) ==
  (IF e.embeddingModel
     THEN {[localOk |-> TRUE, openai |-> "throws", hf |-> [i \in 1..n |-> NotAsked]]}
     ELSE {})
    \cup {[localOk |-> FALSE, openai |-> o, hf |-> [i \in 1..n |-> NotAsked]] :
            o \in IF e.openaiKey THEN OpenAIOutcomes \ {"throws"} ELSE {}}
    \cup {[localOk |-> FALSE, openai |-> "throws", hf |-> h] : h \in [1..n -> HFResponses]}

\* The first branches of the normalisation: an array as it is, the values of
\* an object; anything else throws "Invalid embedding format".
ValidFormat(emb) == emb.kind \in {"array", "object"}
EmbeddingArray(emb) == [emb EXCEPT !.kind = "array"]

\* embeddings.map(...) of addDocuments
Normalised(embeddings, dim) ==
  [i \in DOMAIN embeddings |-> FitDimension(EmbeddingArray(embeddings[i]), dim)]

\* A vector literal the table's column accepts.
Accepted(vector, tableDim) ==
  tableDim # 0 /\ vector.kind = "array" /\ vector.numeric /\ vector.len = tableDim

\* The constructor: embeddingModel = null, embeddingDim = 384, the model load
\* started unless on Vercel, _initCollection started; neither is awaited.
InitEmbed ==
  /\ GateIdle
  /\ StoreIdle
  /\ chunker = NoChunking
  /\ race = NoRace
  /\ ranker = NoRanking
  /\ \E modelDim \in ModelDims, vercel \in BOOLEAN, openaiKey \in BOOLEAN :
       embed = [NoEmbed EXCEPT
                  !.modelDim = modelDim,
                  !.openaiKey = openaiKey,
                  !.load = IF vercel THEN "none" ELSE "import",
                  !.init = "pending"]

EmbedUnchanged == UNCHANGED <<gateVars, storeVars, chunker, race, ranker>>

\* _loadLocalModel, one await at a time: the pipeline is assigned to
\* embeddingModel, then the test embedding's length to embeddingDim; an
\* exception at either sets embeddingModel to null.
_loadLocalModel ==
  /\ EmbedUnchanged
  /\ \/ /\ embed.load = "import"
        /\ \/ embed' = [embed EXCEPT !.load = "test", !.embeddingModel = TRUE]
           \/ embed' = [embed EXCEPT !.load = "failed", !.embeddingModel = FALSE]
     \/ /\ embed.load = "test"
        /\ \/ embed' = [embed EXCEPT !.load = "loaded", !.embeddingDim = embed.modelDim]
           \/ embed' = [embed EXCEPT !.load = "failed", !.embeddingModel = FALSE]

\* _initCollection on a database without the table: CREATE TABLE with
\* vector(${this.embeddingDim}) as read when the statement is built, or an
\* exception, which the constructor's catch logs.
CreateTable ==
  /\ EmbedUnchanged
  /\ embed.init = "pending"
  /\ \/ embed' = [embed EXCEPT !.init = "created", !.tableDim = embed.embeddingDim]
     \/ embed' = [embed EXCEPT !.init = "failed"]

NewEmbedCall(op, n, embeddings) ==
  [embed EXCEPT !.op = op, !.pc = "embedded", !.texts = n,
                !.raw = embeddings, !.embeddings = embeddings,
                !.normDim = 0, !.handed = <<>>, !.status = "none", !.error = "none"]

EmbedThrown(error) == [embed EXCEPT !.pc = "done", !.status = "thrown", !.error = error]

\* addDocuments up to the end of `let embeddings; if (this.embeddingModel) ...`
EmbedDocuments ==
  /\ EmbedUnchanged
  /\ embed.pc \in {"idle", "done"}
  /\ \E n \in 1..MaxTexts :
       \E o \in ProviderOutcomes(embed, n) :
         embed' = NewEmbedCall("addDocuments", n,
                               GenerateEmbeddings(embed, o.localOk, o.openai, o.hf, n))

\* addDocuments: embeddings = embeddings.map(...), synchronous
NormaliseEmbeddings ==
  /\ EmbedUnchanged
  /\ embed.op = "addDocuments" /\ embed.pc = "embedded"
  /\ IF \E i \in DOMAIN embed.embeddings : ~ValidFormat(embed.embeddings[i])
       THEN embed' = EmbedThrown("Invalid embedding format")
       ELSE embed' = [embed EXCEPT !.pc = "insert",
                                   !.normDim = embed.embeddingDim,
                                   !.embeddings = Normalised(embed.embeddings, embed.embeddingDim)]

\* The index of the first text whose INSERT throws, texts + 1 if none does:
\* embeddings[i] is undefined, or the column rejects the literal.
FirstRejected(e) ==
  LET bad == {i \in 1..e.texts : i > Len(e.embeddings) \/ ~Accepted(e.embeddings[i], e.tableDim)} IN
  IF bad = {} THEN e.texts + 1 ELSE CHOOSE i \in bad : \A j \in bad : i <= j

\* addDocuments: the insert loop, COMMIT, catch { ROLLBACK; throw e }
InsertVectors ==
  /\ EmbedUnchanged
  /\ embed.op = "addDocuments" /\ embed.pc = "insert"
  /\ LET k == FirstRejected(embed)
         handed == SubSeq(embed.embeddings, 1, IF k > Len(embed.embeddings) THEN Len(embed.embeddings) ELSE k) IN
     embed' = [embed EXCEPT
                 !.pc = "done",
                 !.handed = handed,
                 !.status = IF k > embed.texts THEN "returned" ELSE "thrown",
                 !.error = IF k > embed.texts THEN "none"
                           ELSE IF k > Len(embed.embeddings) THEN "TypeError"
                           ELSE "database"]

\* search up to queryEmbedding: the local model, or
\* `Array.isArray(embeddings[0]) ? embeddings[0] : (embeddings[0].data || embeddings[0])`
EmbedQuery ==
  /\ EmbedUnchanged
  /\ embed.pc \in {"idle", "done"}
  /\ \E o \in ProviderOutcomes(embed, 1) :
       LET embeddings == GenerateEmbeddings(embed, o.localOk, o.openai, o.hf, 1) IN
       IF Len(embeddings) = 0
         THEN embed' = [NewEmbedCall("search", 1, embeddings) EXCEPT
                          !.pc = "done", !.status = "thrown", !.error = "TypeError"]
         ELSE embed' = NewEmbedCall("search", 1, embeddings)

\* search: `[${queryEmbedding.join(',')}]`, the count, the SELECT
QueryVectors ==
  /\ EmbedUnchanged
  /\ embed.op = "search" /\ embed.pc = "embedded"
  /\ IF embed.embeddings[1].kind # "array"
       THEN embed' = EmbedThrown("TypeError")
       ELSE \E empty \in BOOLEAN :
              LET ok == embed.tableDim # 0 /\ (empty \/ Accepted(embed.embeddings[1], embed.tableDim)) IN
              embed' = [embed EXCEPT !.pc = "done",
                                     !.handed = embed.embeddings,
                                     !.status = IF ok THEN "returned" ELSE "thrown",
                                     !.error = IF ok THEN "none" ELSE "database"]

NextEmbed ==
  \/ _loadLocalModel \/ CreateTable
  \/ EmbedDocuments \/ NormaliseEmbeddings \/ InsertVectors
  \/ EmbedQuery \/ QueryVectors

SpecEmbed == InitEmbed /\ [][NextEmbed]_vars

\* ------------------------------------------------------------------ claims
\* The stage order and the classification table as the claims state them.
ClaimOrder == <<"K", "C", "B", "N", "L">>
ClaimStages == {"K", "C", "B", "N", "L"}
ClaimPos(x) == CHOOSE i \in DOMAIN ClaimOrder : ClaimOrder[i] = x
\* X is the first stage of the order that is not in S
FirstNotIn(S, X) ==
  /\ X \in ClaimStages
  /\ X \notin S
  /\ \A i \in DOMAIN ClaimOrder : i < ClaimPos(X) => ClaimOrder[i] \in S
ClaimType(stage) ==
  CASE stage = "B" -> "hard_stop"
    [] stage \in {"K", "C"} -> "info_only"
    [] stage \in {"N", "L"} -> "full_answer"
    [] OTHER -> "none"

Completed(id) == Range(sessions[id].completed_stages)
\* The step is a gated search on the existing session id.
GatedSearchOn(id) ==
  /\ id \in DOMAIN sessions
  /\ last'.op = "search"
  /\ last'.generate_answer
  /\ last'.session_id = id
\* The gate gave a decision: none of its database calls threw.
GateReturned == last.error # "gate_error"
\* The step is a search the gate authorized.
AuthorizedSearch == last'.op = "search" /\ last'.authorized
Entry(sessionId, stage, responseType) ==
  [session_id |-> sessionId, stage |-> stage, response_type |-> responseType]

\* C1: in every state each session's completed stages lie within {K,C,B,N,L},
\* and no request removes a stage from any session's completed set.
C1_StagesWithin == \A id \in DOMAIN sessions : Completed(id) \subseteq ClaimStages
C1_StagesKept ==
  \A id \in DOMAIN sessions :
    id \in DOMAIN sessions' /\ Completed(id) \subseteq Range(sessions'[id].completed_stages)
C1_CompletedStagesMonotone == []C1_StagesWithin /\ [][C1_StagesKept]_vars
C1_Witness ==
  /\ last.op = "search" /\ last.authorized
  /\ \E id \in DOMAIN sessions : Len(sessions[id].completed_stages) >= 3

\* C2: whenever the gate decides a request for stage X on a session with
\* completed set S, it authorizes it exactly when X is in S or X is the first
\* stage of the order K,C,B,N,L not in S; every other X is rejected.
C2_AuthorizedIffRepeatOrNext ==
  [][\A id \in DOMAIN sessions :
       (GatedSearchOn(id) /\ GateReturned') =>
         /\ last'.authorized <=>
              (last'.stage \in Completed(id) \/ FirstNotIn(Completed(id), last'.stage))
         /\ ~last'.authorized => last'.status = 400]_vars
C2_Witness ==
  /\ last.op = "search" /\ last.authorized /\ last.stage = "C"
  /\ \E id \in DOMAIN sessions : sessions[id].completed_stages = <<"K", "C">>

\* C3: from a new session on, every request whose stage is already completed
\* or is the next stage of the order is authorized, at every step of any
\* sequence of such requests (whenever the gate returns a decision).
C3_OrderedRequestsAuthorized ==
  [][\A id \in DOMAIN sessions :
       (/\ GatedSearchOn(id) /\ GateReturned'
        /\ \/ last'.stage \in Completed(id)
           \/ FirstNotIn(Completed(id), last'.stage)) =>
         /\ last'.authorized
         /\ last'.stage \in Range(sessions'[id].completed_stages)]_vars
C3_Witness ==
  /\ last.op = "search" /\ last.authorized /\ last.stage = "K"
  /\ \E id \in DOMAIN sessions : sessions[id].completed_stages = <<"K", "C", "B">>

\* C4: a request for a stage that is neither completed nor the next allowed
\* stage is not authorized, is rejected as an invalid transition when the gate
\* returns, and leaves the session rows (completed stages, update time) as they were.
C4_SkipRejectedRowUnchanged ==
  [][\A id \in DOMAIN sessions :
       (/\ GatedSearchOn(id)
        /\ last'.stage \in ClaimStages
        /\ last'.stage \notin Completed(id)
        /\ ~FirstNotIn(Completed(id), last'.stage)) =>
         /\ ~last'.authorized
         /\ GateReturned' => last'.status = 400 /\ last'.error = "invalid_transition"
         /\ sessions' = sessions]_vars
C4_Witness ==
  /\ last.op = "search" /\ last.error = "invalid_transition" /\ last.stage = "L"
  /\ \E id \in DOMAIN sessions :
       last.session_id = id /\ sessions[id].completed_stages = <<"K", "C">>
       /\ sessions[id].updated_at = 2

\* C5 as stated: a search request for stage B never invokes retrieval or the
\* LLM, and when authorized returns the fixed refusal with classification hard_stop.
C5_Original ==
  (last.op = "search" /\ last.stage = "B") =>
    /\ ~last.retrieval /\ ~last.llm
    /\ last.authorized =>
         last.answer = "HARD_STOP_MESSAGE" /\ last.response_type = "hard_stop"

\* C5 amended: a search request for stage B never invokes the LLM; it never
\* invokes retrieval when an answer is requested (generate_answer on), and when
\* the gate authorizes it the answer is the fixed refusal with classification
\* hard_stop.  Only a plain search (generate_answer=false), which the gate
\* never sees, runs retrieval with stage B.
C5_HardStopNoGeneration ==
  (last.op = "search" /\ last.stage = "B") =>
    /\ ~last.llm
    /\ last.generate_answer => ~last.retrieval
    /\ last.retrieval => ~last.authorized /\ last.answer = NULL
    /\ last.authorized =>
         /\ last.answer = "HARD_STOP_MESSAGE" /\ last.response_type = "hard_stop"
         /\ last.status = 200 /\ last.results = "empty"
C5_Witness ==
  /\ last.op = "search" /\ last.stage = "B" /\ last.authorized
  /\ last.answer = "HARD_STOP_MESSAGE" /\ dbUrlSet
  /\ audit # <<>> /\ audit[Len(audit)].stage = "B"

\* C6: the classification the gate gives an authorized request is fixed by
\* the stage alone: hard_stop for B, info_only for K and C, full_answer for
\* N and L, whatever the query, the completed set, and whether it is a repeat.
C6_ClassificationByStage ==
  (last.op = "search" /\ last.authorized) =>
    /\ last.gate_type = ClaimType(last.stage)
    /\ last.response_type \in {"none", last.gate_type}
C6_Witness ==
  /\ last.op = "search" /\ last.authorized /\ last.stage = "C"
  /\ last.response_type = "info_only"
  /\ \E id \in DOMAIN sessions : Len(sessions[id].completed_stages) >= 3

\* C7 as stated: every authorized search appends exactly one audit entry with
\* the request's session, its stage and the gate's classification, whatever
\* happens downstream.
C7_Original ==
  [][AuthorizedSearch =>
       audit' = Append(audit, Entry(last'.session_id, last'.stage, last'.gate_type))]_vars

C9_SkipNamesNextAuditUnchanged ==
  [][\A id \in DOMAIN sessions :
       (/\ GatedSearchOn(id) /\ GateReturned'
        /\ last'.stage \in ClaimStages
        /\ last'.stage \notin Completed(id)
        /\ ~FirstNotIn(Completed(id), last'.stage)) =>
         /\ last'.status = 400 /\ last'.error = "invalid_transition"
         /\ FirstNotIn(Completed(id), last'.next_allowed)
         /\ audit' = audit]_vars
C9_Witness ==
  /\ last.op = "search" /\ last.error = "invalid_transition"
  /\ last.stage = "N" /\ last.next_allowed = "C"
  /\ \E id \in DOMAIN sessions :
       last.session_id = id /\ sessions[id].completed_stages = <<"K">>
  /\ audit = <<Entry(last.session_id, "K", "info_only")>>

\* C10 as stated: in a session whose only authorized query so far was K, a
\* query at stage B is authorized and answered with the hard stop.
C10_Original ==
  [][\A id \in DOMAIN sessions :
       (/\ GatedSearchOn(id) /\ GateReturned'
        /\ sessions[id].completed_stages = <<"K">>
        /\ last'.stage = "B") =>
         /\ last'.authorized
         /\ last'.response_type = "hard_stop"
         /\ last'.answer = "HARD_STOP_MESSAGE"]_vars

\* C10 amended: in a session whose only authorized query so far was K, a
\* query at stage B is rejected as a skip naming C as the next allowed stage:
\* no refusal text is returned, no retrieval or generation call is made, and
\* the session and the audit log stay as they were.
C10_BAfterKRejected ==
  [][\A id \in DOMAIN sessions :
       (/\ GatedSearchOn(id) /\ GateReturned'
        /\ sessions[id].completed_stages = <<"K">>
        /\ last'.stage = "B") =>
         /\ ~last'.authorized
         /\ last'.status = 400 /\ last'.error = "invalid_transition"
         /\ last'.next_allowed = "C"
         /\ last'.answer = NULL /\ last'.response_type = "none"
         /\ ~last'.llm /\ ~last'.retrieval
         /\ audit' = audit /\ sessions' = sessions]_vars
C10_Witness ==
  /\ last.op = "search" /\ last.stage = "B" /\ last.error = "invalid_transition"
  /\ last.next_allowed = "C"
  /\ \E id \in DOMAIN sessions :
       last.session_id = id /\ sessions[id].completed_stages = <<"K">>
  /\ Len(audit) = 1 /\ audit[1].stage = "K"

C12_Original ==
  /\ last.llm => last.authorized
  /\ last.answer \in {"generated", "generated_stripped"} => last.authorized

\* C13: the Decision Kernel answers stop exactly when no answer could be
\* produced (retrieval empty or failing, LLM unavailable or returning nothing)
\* and allow exactly when a non-empty answer exists; it never answers block.
\* Checked on the kernel for every behaviour of retrieval and the LLM, and on
\* every response of the two search routes that consulted the kernel.
C13_KernelOnEnvs ==
  \A env \in KernelEnvs :
    LET r == processUserIntent(env) IN
      /\ r.decision \in {"stop", "allow"}
      /\ r.decision = "allow" <=> (env.retrieval = "hits" /\ env.llm = "text")
      /\ r.decision = "allow" <=> r.answer # NULL
C13_KernelStopOrAllow ==
  /\ C13_KernelOnEnvs
  /\ last.decision \in {"none", "stop", "allow"}
  /\ last.decision = "allow" =>
       /\ last.answer \in {"generated", "generated_stripped"}
       /\ last.llm /\ last.retrieval /\ last.results = "hits"
  /\ last.decision = "stop" => last.answer = NULL /\ last.error = "blocked"
C13_Witness ==
  /\ last.op = "search" /\ last.decision = "stop" /\ last.retrieval /\ last.llm
  /\ last.stage = "N" /\ last.answer = NULL

\* C14 as stated: on every authorized gate request, a repeat included, the
\* stage is in the completed set afterwards and the update time has advanced.
C14_Original ==
  [][\A id \in DOMAIN sessions :
       (GatedSearchOn(id) /\ last'.authorized) =>
         /\ last'.stage \in Range(sessions'[id].completed_stages)
         /\ sessions'[id].updated_at > sessions[id].updated_at]_vars

\* C14 amended: on every authorized gate request the requested stage is in
\* the session's completed set afterwards.  The update time advances exactly
\* when the stage was not completed before; the repeat of a completed stage
\* writes nothing and leaves the row, update time included, as it was.  No
\* other session's row changes.
C14_AuthorizedStageCompleted ==
  [][\A id \in DOMAIN sessions :
       (GatedSearchOn(id) /\ last'.authorized) =>
         /\ last'.stage \in Range(sessions'[id].completed_stages)
         /\ last'.stage \notin Completed(id) =>
              sessions'[id].updated_at > sessions[id].updated_at
         /\ last'.stage \in Completed(id) => sessions'[id] = sessions[id]
         /\ \A other \in DOMAIN sessions \ {id} : sessions'[other] = sessions[other]]_vars
C14_Witness ==
  /\ last.op = "search" /\ last.authorized /\ last.stage = "K"
  /\ \E id \in DOMAIN sessions :
       /\ last.session_id = id
       /\ sessions[id].completed_stages = <<"K", "C">>
       /\ sessions[id].updated_at = 2

\* C15: the gate has no terminal state.  In every reachable state each
\* session has a stage whose request the gate allows: its next allowed stage.
\* Once all five stages are completed the next allowed stage is L, and every
\* request for L is authorized and leaves the completed set unchanged.
C15_SomeStageAllowed ==
  \A id \in DOMAIN sessions :
    LET completed_stages == sessions[id].completed_stages IN
      /\ getNextAllowedStage(completed_stages) \in ClaimStages
      /\ isStageAllowed(completed_stages, getNextAllowedStage(completed_stages))
      /\ Range(completed_stages) = ClaimStages =>
           getNextAllowedStage(completed_stages) = "L"
C15_LRepeats ==
  \A id \in DOMAIN sessions :
    (/\ GatedSearchOn(id) /\ GateReturned'
     /\ Completed(id) = ClaimStages
     /\ last'.stage = "L") =>
       /\ last'.authorized
       /\ sessions' = sessions
C15_NoTerminalState == []C15_SomeStageAllowed /\ [][C15_LRepeats]_vars
C15_Witness ==
  /\ last.op = "search" /\ last.authorized /\ last.stage = "L"
  /\ last.response_type = "full_answer"
  /\ \E id \in DOMAIN sessions :
       /\ last.session_id = id
       /\ sessions[id].completed_stages = <<"K", "C", "B", "N", "L">>
       /\ sessions[id].updated_at = 5
  /\ Len(audit) = 2 /\ audit[1].stage = "L" /\ audit[2].stage = "L"

C17_SecondIngestionOverwrites ==
  (call.op = "addDocuments" /\ call.again /\ call.pc = "done" /\ call.status = "returned")
    => /\ call.ids = call.prevIds
       /\ RowIds(index) = RowIds(call.before)
       /\ Cardinality(index) = Cardinality(call.before)

\* A second ingestion of two chunks has returned, and it overwrote a row:
\* the embeddings came from the other source this time.
C17_Witness ==
  /\ call.op = "addDocuments" /\ call.again /\ call.pc = "done" /\ call.status = "returned"
  /\ Len(call.chunks) = 2 /\ call.chunks[1] # call.chunks[2]
  /\ index # call.before
  /\ RowIds(index) = Range(call.ids)

\* C18 (as stated): when an addDocuments call fails on one of its rows, the
\* index holds exactly the rows and values it held before the call.
\* Refuted: the rows inserted before the failing one stay.
C18_Original ==
  (call.op = "addDocuments" /\ call.pc = "done" /\ call.failedRow > 0)
    => index = call.before

\* C19: every vector store operation that checked out a pooled connection
\* releases it exactly once, whether its try block returned, returned early
\* or threw, and whether its catch block threw in turn: while the operation
\* runs it holds one connection that it has not released, once it has
\* settled it has released as many as it acquired, and between operations
\* no connection is checked out.
C19_ConnectionReleasedOnce ==
  /\ Settled => checkedOut = 0
  /\ call.pc \in {"try", "catch", "finally"}
       => (checkedOut = 1 /\ call.acquired = 1 /\ call.released = 0)
  /\ call.pc = "done" => call.released = call.acquired

\* A delete whose DELETE or COMMIT threw and whose ROLLBACK threw as well
\* has settled with its connection released.
C19_Witness ==
  /\ call.op = "deleteDocuments" /\ call.pc = "done"
  /\ call.caught /\ call.status = "thrown"
  /\ call.acquired = 1 /\ call.released = 1 /\ checkedOut = 0

\* C20: a delete by the filter filename = F that reports no error has
\* removed every row whose filename is F and no other row, and reports how
\* many rows that were; a filename listing that follows it and succeeds
\* lists the filenames that were present before the delete, except F.
C20_DeleteByFilename ==
  /\ (/\ call.op = "deleteDocuments" /\ call.pc = "done"
      /\ call.status = "returned" /\ ~call.error
      /\ Len(call.ids) = 0 /\ call.filter # NULL)
       => /\ index = {r \in call.before : r.metadata.filename # call.filter}
          /\ call.count = Cardinality({r \in call.before : r.metadata.filename = call.filter})
  /\ (/\ call.op = "getAllFilenames" /\ call.pc = "done"
      /\ call.status = "returned" /\ ~call.caught /\ call.deleted # NULL)
       => /\ call.deleted \notin call.rows
          /\ call.rows = {r.metadata.filename : r \in call.deletedFrom} \ {call.deleted}

\* Both chunks of file f were deleted from an index that also held the chunk
\* of file g, and the listing that followed names g alone.
C20_Witness ==
  /\ call.op = "getAllFilenames" /\ call.pc = "done"
  /\ call.status = "returned" /\ ~call.caught
  /\ call.deleted = "f"
  /\ Cardinality({r \in call.deletedFrom : r.metadata.filename = "f"}) = 2
  /\ Cardinality(call.deletedFrom) = 3
  /\ Cardinality(index) = 1
  /\ call.rows = {"g"}

\* C26: with requests run one at a time, each session's stored
\* completed_stages list is a prefix of K,C,B,N,L in that order: no stage
\* twice, and no stage without every earlier one.
C26_CompletedStagesIsPrefix ==
  \A id \in DOMAIN sessions :
    LET stored == sessions[id].completed_stages IN
      /\ Len(stored) <= Len(ClaimOrder)
      /\ stored = SubSeq(ClaimOrder, 1, Len(stored))

\* A session has reached K, C, B through three authorized requests.
C26_Witness ==
  /\ 1 \in DOMAIN sessions
  /\ sessions[1].completed_stages = <<"K", "C", "B">>
  /\ last.op = "search" /\ last.authorized /\ last.stage = "B"

\* C27 (as stated): once the search request that added stage X to a session
\* has returned, the audit log holds an entry of that session with stage X,
\* on every path.  Refuted: the stage is stored by the gate, and the entry
\* is missing when the kernel cannot be built or the audit insert fails.
C27_Original ==
  \A id \in DOMAIN sessions :
    \A X \in Completed(id) :
      \E i \in DOMAIN audit : audit[i].session_id = id /\ audit[i].stage = X

\* C28: when a search is authorized, its stage is in the session's completed
\* set in the state the handler leaves, whatever happened after the gate:
\* hard stop, kernel stop, kernel allow, or an error answered with 500.
\* The advance is the gate's own write and no later step writes the row.
C28_StageCompleted ==
  (last.op = "search" /\ last.authorized)
    => /\ last.session_id \in DOMAIN sessions
       /\ last.stage \in Completed(last.session_id)
C28_AdvanceKept ==
  (/\ AuthorizedSearch /\ last'.session_id \in DOMAIN sessions
   /\ last'.stage \notin Completed(last'.session_id))
    => sessions' = AdvanceRow(sessions, last'.session_id, last'.stage)
C25_Original == [][Range(race.row) \subseteq Range(race'.row)]_vars

\* C29 (as stated): of two candidates with the same text, the one the
\* store reports as closer to the query gets a similarity term no smaller
\* than the other's and is not ranked below it.  Refuted: the store reports
\* a similarity under the name distance, and the ranker subtracts it.
C29_Original ==
  (/\ ranker.done
   /\ ranker.rows[1].document = ranker.rows[2].document
   /\ ranker.rows[1].cosine < ranker.rows[2].cosine)
    => /\ DistanceTerm(ranker.rows[1]) >= DistanceTerm(ranker.rows[2])
       /\ ranker.ranked[1].id = ranker.rows[1].id

\* C23 (as stated): a write to the vector store whose database statement
\* failed is never answered with success by the entry point that made it.
C23_Original == WriteFailed(call) => ~ReportsSuccess(call)

\* C21: every vector that addDocuments hands to an INSERT has the length of
\* the embedding dimension its normalisation read, whichever provider made
\* it: a shorter one was padded, a longer one cut.  That dimension is the
\* store's embeddingDim unless a model load has replaced it since.
C21_WrittenHaveDimension ==
  (embed.op = "addDocuments" /\ embed.pc \in {"insert", "done"} /\ embed.normDim # 0)
    => /\ \A i \in DOMAIN embed.embeddings : embed.embeddings[i].len = embed.normDim
       /\ \A i \in DOMAIN embed.handed : embed.handed[i].len = embed.normDim
       /\ embed.normDim \in {DefaultDim, embed.modelDim}
       /\ embed.load # "loaded" => embed.normDim = embed.embeddingDim

\* C21 witness: an ingestion has stored two vectors, one that came shorter
\* than the dimension and one that came longer.
C21_Witness ==
  /\ embed.op = "addDocuments" /\ embed.pc = "done" /\ embed.status = "returned"
  /\ Len(embed.handed) = 2
  /\ embed.raw[1].len < embed.normDim
  /\ embed.raw[2].len > embed.normDim

\* C22 (as stated): embedding generation gives ingestion and query one
\* vector per text, whatever the providers answer, and never fails them.
C22_Original ==
  /\ (embed.pc = "embedded")
       => /\ Len(embed.embeddings) = embed.texts
          /\ \A i \in DOMAIN embed.embeddings : embed.embeddings[i].kind = "array"
  /\ (embed.pc = "done")
       => embed.error \notin {"Invalid embedding format", "TypeError"}

\* C30 (as stated): the dimension of the table's vector column is the
\* dimension addDocuments normalises vectors to, in every interleaving of
\* the model load and the table creation.
C30_Original ==
  (embed.tableDim # 0 /\ embed.normDim # 0) => embed.normDim = embed.tableDim
====
